---- MODULE Spec2Model ----
(***************************************************************************)
(* tech-debt-estimator: the metrics engine (metrics.py) and the debt       *)
(* aggregator (analyzer.py) over a model of the scanned directory tree.    *)
(*                                                                         *)
(* Text is modelled character by character: a string is a sequence of      *)
(* one-character strings, so that strip(), startswith(), the `in` operator,*)
(* str.replace() and the regular expressions are computed as the code      *)
(* computes them.  A file line is stored without its trailing newline.     *)
(* Hours are kept in half-hours (DOC_HOURS_PER_ITEM is 0.5).               *)
(***************************************************************************)
EXTENDS Integers, Sequences, FiniteSets, TLC

VARIABLES repo_path, rootKind, fs, now, writes, calls, result, prev, ranked, scanned

vars == <<repo_path, rootKind, fs, now, writes, calls, result, prev, ranked, scanned>>

----------------------------------------------------------------------------
(* Characters and strings *)

Whitespace == {" ", "\t"}

UpperCase == <<"A", "B", "C", "D", "E", "F", "G", "H", "I", "J", "K", "L", "M", "N", "O", "P", "Q", "R", "S", "T", "U", "V", "W", "X", "Y", "Z">>

LowerCase == <<"a", "b", "c", "d", "e", "f", "g", "h", "i", "j", "k", "l", "m", "n", "o", "p", "q", "r", "s", "t", "u", "v", "w", "x", "y", "z">>

Digits == <<"0", "1", "2", "3", "4", "5", "6", "7", "8", "9">>

WordChars == {UpperCase[i] : i \in 1..26} \cup {LowerCase[i] : i \in 1..26}
                \cup {Digits[i] : i \in 1..10} \cup {"_"}

\* The characters of the model in code-point order (str comparison).
CodePoints == <<"\t", " ", "\"", "#", "'", "(", ")", "-", ".", "/">> \o Digits \o <<":", "=">> \o UpperCase \o <<"_">> \o LowerCase \o <<"{", "}">>

Ord == [c \in {CodePoints[i] : i \in 1..Len(CodePoints)} |->
           CHOOSE i \in 1..Len(CodePoints) : CodePoints[i] = c]

LowerChar(c) == IF \E i \in 1..26 : UpperCase[i] = c
                THEN LowerCase[CHOOSE i \in 1..26 : UpperCase[i] = c]
                ELSE c

lower(s) == [i \in 1..Len(s) |-> LowerChar(s[i])]

SetMin(S) == CHOOSE x \in S : \A y \in S : x <= y

SetMax(S) == CHOOSE x \in S : \A y \in S : y <= x

strip(s) == LET ink == {i \in 1..Len(s) : s[i] \notin Whitespace}
            IN  IF ink = {} THEN <<>> ELSE SubSeq(s, SetMin(ink), SetMax(ink))

startswith(s, p) == Len(s) >= Len(p) /\ SubSeq(s, 1, Len(p)) = p

endswith(s, p) == Len(s) >= Len(p) /\ SubSeq(s, Len(s) - Len(p) + 1, Len(s)) = p

\* sub in s
contains(s, sub) == \E i \in 1..(Len(s) - Len(sub) + 1) : SubSeq(s, i, i + Len(sub) - 1) = sub

\* s.replace(old, ''): every non-overlapping occurrence, left to right
RECURSIVE replace(_, _)
replace(s, old) == IF Len(s) < Len(old) \/ Len(old) = 0 THEN s
                   ELSE IF startswith(s, old)
                        THEN replace(SubSeq(s, Len(old) + 1, Len(s)), old)
                        ELSE <<Head(s)>> \o replace(Tail(s), old)

\* The key of a str in a sort: its code points
StrKey(s) == [i \in 1..Len(s) |-> Ord[s[i]]]

\* k1 < k2 for sort keys (tuples of integers, code points of a str)
RECURSIVE KeyLess(_, _)
KeyLess(k1, k2) == IF k2 = <<>> THEN FALSE
                   ELSE IF k1 = <<>> THEN TRUE
                   ELSE IF Head(k1) = Head(k2) THEN KeyLess(Tail(k1), Tail(k2))
                   ELSE Head(k1) < Head(k2)

\* Length of the longest prefix of s made of characters of C
RECURSIVE Span(_, _)
Span(s, C) == IF s = <<>> \/ Head(s) \notin C THEN 0 ELSE 1 + Span(Tail(s), C)

Drop(s, n) == SubSeq(s, n + 1, Len(s))

\* A sequence given as a function, evaluated once into a tuple
list(xs) == xs \o <<>>

\* sorted(xs, key=Key, reverse=reverse), keys[i] being Key(xs[i]): a stable sort,
\* ascending or descending, items of equal keys keeping their input order
sorted(xs, keys, reverse) ==
    LET tagged == list([i \in 1..Len(xs) |-> <<keys[i], i, xs[i]>>])
        before(a, b) ==
            IF reverse THEN KeyLess(b[1], a[1]) \/ (~KeyLess(a[1], b[1]) /\ a[2] < b[2])
            ELSE KeyLess(a[1], b[1]) \/ (~KeyLess(b[1], a[1]) /\ a[2] < b[2])
        ordered == SortSeq(tagged, LAMBDA a, b : before(a, b))
    IN  list([r \in 1..Len(ordered) |-> ordered[r][3]])

\* xs[:n]
FirstN(xs, n) == SubSeq(xs, 1, IF Len(xs) < n THEN Len(xs) ELSE n)

\* sum(xs), added up left to right; the range is halved only to keep the
\* evaluation shallow
RECURSIVE SumRange(_, _, _)
SumRange(xs, lo, hi) ==
    IF lo > hi THEN 0
    ELSE IF lo = hi THEN xs[lo]
    ELSE SumRange(xs, lo, (lo + hi) \div 2) + SumRange(xs, ((lo + hi) \div 2) + 1, hi)

SumSeq(xs) == SumRange(xs, 1, Len(xs))

\* The concatenation of the sequences xss[lo..hi]
RECURSIVE FlattenRange(_, _, _)
FlattenRange(xss, lo, hi) ==
    IF lo > hi THEN <<>>
    ELSE IF lo = hi THEN xss[lo]
    ELSE FlattenRange(xss, lo, (lo + hi) \div 2) \o FlattenRange(xss, ((lo + hi) \div 2) + 1, hi)

Flatten(xss) == FlattenRange(xss, 1, Len(xss))

----------------------------------------------------------------------------
(* The scanned tree.  A file is [dir, name, lines, mtime, readable]: dir the  *)
(* directory names from the repository root down, lines its text, mtime its   *)
(* modification time in clock ticks, readable whether open() succeeds.  A     *)
(* repository is [path, kind, files]: the root path given to the scanners,    *)
(* what that path is on disk ("dir", "file" or "missing"), and the files      *)
(* under it in directory-listing order.                                       *)

\* Clock ticks per day: datetime carries sub-day precision
TicksPerDay == 2

None == <<>>

Some(x) == <<x>>

Sep == <<"/">>

\* os.path.relpath(filepath, repo_path)
relpath(f) == Flatten([i \in 1..Len(f.dir) |-> f.dir[i] \o Sep]) \o f.name

\* os.path.join(root, file), root being the walked directory under repo_path
filepath(repo, f) == repo.path \o Sep \o relpath(f)

ExcludedDirs == {<<".", "g", "i", "t">>, <<"n", "o", "d", "e", "_", "m", "o", "d", "u", "l", "e", "s">>, <<"v", "e", "n", "v">>, <<".", "v", "e", "n", "v">>, <<"_", "_", "p", "y", "c", "a", "c", "h", "e", "_", "_">>}

ExcludedComplexityDirs == ExcludedDirs \cup {<<"d", "i", "s", "t">>, <<"b", "u", "i", "l", "d">>}

\* Mutant: no directory is pruned
walk_NoPruning(repo, excluded) ==
    IF repo.kind # "dir" THEN <<>> ELSE repo.files

\* os.walk(repo_path) with dirs[:] pruned of `excluded`: the files visited.
\* os.walk swallows the scandir error of a root that is no directory.
walk(repo, excluded) ==
    IF repo.kind # "dir" THEN <<>>
    ELSE SelectSeq(repo.files, LAMBDA f : \A i \in 1..Len(f.dir) : f.dir[i] \notin excluded)

is_code_file(file) ==
    \/ endswith(file, <<".", "p", "y">>)
    \/ \E ext \in {<<".", "j", "s">>, <<".", "t", "s">>, <<".", "j", "s", "x">>, <<".", "t", "s", "x">>} : endswith(file, ext)

TripleDouble == <<"\"", "\"", "\"">>

TripleSingle == <<"'", "'", "'">>

\* Mutant: a line that opens and closes a literal leaves the flag as it was
CountLine_ClosedOnTheLine(line, st) ==
    LET stripped == strip(line)
    IN  IF stripped = <<>> THEN st
        ELSE IF contains(stripped, TripleDouble) \/ contains(stripped, TripleSingle)
             THEN IF Len(stripped) >= 6 /\ startswith(stripped, TripleDouble) /\ endswith(stripped, TripleDouble)
                  THEN st ELSE <<st[1], ~st[2]>>
        ELSE IF st[2] THEN st
        ELSE IF startswith(stripped, <<"#">>) \/ startswith(stripped, <<"/", "/">>) THEN st
        ELSE <<st[1] + 1, st[2]>>

\* One iteration of the loop of get_lines_of_code: st is <<code_lines,
\* in_multiline_comment>> before the line and the result is the pair after it
CountLine(line, st) ==
    LET stripped == strip(line)
    IN  IF stripped = <<>> THEN st
        ELSE IF contains(stripped, TripleDouble) \/ contains(stripped, TripleSingle)
             THEN <<st[1], ~st[2]>>
        ELSE IF st[2] THEN st
        ELSE IF startswith(stripped, <<"#">>) \/ startswith(stripped, <<"/", "/">>) THEN st
        ELSE <<st[1] + 1, st[2]>>

\* The loop over lines lo..hi, in order.  The range is halved, and the first half
\* evaluated before the second is entered, only to keep the evaluation shallow.
RECURSIVE CountLines(_, _, _, _)
CountLines(lines, lo, hi, st) ==
    IF lo > hi THEN st
    ELSE IF lo = hi THEN CountLine(lines[lo], st)
    ELSE LET mid == (lo + hi) \div 2
             half == CountLines(lines, lo, mid, st)
         IN  IF half[1] >= 0 THEN CountLines(lines, mid + 1, hi, half) ELSE half

get_lines_of_code(f) ==
    IF ~f.readable THEN 0 ELSE CountLines(f.lines, 1, Len(f.lines), <<0, FALSE>>)[1]

\* The code files among the files walked: `if is_code_file(file)`
CodeFiles(repo, excluded) == SelectSeq(walk(repo, excluded), LAMBDA f : is_code_file(f.name))

\* (rel_path, loc) of each file
Measured(code) == list([i \in 1..Len(code) |-> <<relpath(code[i]), get_lines_of_code(code[i])>>])

\* Mutant: the smallest file first
find_complex_files_Ascending(repo, threshold) ==
    LET by_loc(complex_files) ==
            sorted(complex_files, list([i \in 1..Len(complex_files) |-> <<complex_files[i][2]>>]), FALSE)
    IN  by_loc(SelectSeq(Measured(CodeFiles(repo, ExcludedComplexityDirs)), LAMBDA x : x[2] > threshold))

find_complex_files(repo, threshold) ==
    LET by_loc(complex_files) ==
            sorted(complex_files, list([i \in 1..Len(complex_files) |-> <<complex_files[i][2]>>]), TRUE)
    IN  by_loc(SelectSeq(Measured(CodeFiles(repo, ExcludedComplexityDirs)), LAMBDA x : x[2] > threshold))

\* The text that hash_line_block digests (the lines are already stripped here).
\* md5 is taken to be injective on it: the digest is modelled by the joined text,
\* a sequence of lines standing for their '\n'-join.
hash_line_block(stripped_lines) == SelectSeq(stripped_lines, LAMBDA l : l # <<>>)

\* Mutant: the last window of a file is not hashed
FileBlocks_LastWindowLost(f, block_size) ==
    IF ~f.readable THEN <<>>
    ELSE LET stripped == list([i \in 1..Len(f.lines) |-> strip(f.lines[i])])
             n == IF Len(f.lines) - block_size > 0 THEN Len(f.lines) - block_size ELSE 0
         IN  list([i \in 1..n |-> [hash |-> hash_line_block(SubSeq(stripped, i, i + block_size - 1)),
                                   loc |-> <<relpath(f), i>>]])

\* for i in range(len(lines) - block_size + 1): the (hash, (rel_path, i + 1)) of a file
FileBlocks(f, block_size) ==
    IF ~f.readable THEN <<>>
    ELSE LET stripped == list([i \in 1..Len(f.lines) |-> strip(f.lines[i])])
             n == IF Len(f.lines) - block_size + 1 > 0 THEN Len(f.lines) - block_size + 1 ELSE 0
         IN  list([i \in 1..n |-> [hash |-> hash_line_block(SubSeq(stripped, i, i + block_size - 1)),
                                   loc |-> <<relpath(f), i>>]])

\* The blocks of all files, in the order they are hashed
AllBlocks(code, block_size) == Flatten([i \in 1..Len(code) |-> FileBlocks(code[i], block_size)])

\* The duplicates list before it is sorted, in the insertion order of the hashes
\* dict: a key is inserted by the first block that has it
Groups(blocks) ==
    LET inserts == SelectSeq(list([i \in 1..Len(blocks) |-> i]),
                             LAMBDA i : \A j \in 1..(i - 1) : blocks[j].hash # blocks[i].hash)
        hashes == list([k \in 1..Len(inserts) |->
                     LET occurrences == SelectSeq(blocks, LAMBDA b : b.hash = blocks[inserts[k]].hash)
                     IN  [hash |-> blocks[inserts[k]].hash, count |-> Len(occurrences),
                          locations |-> list([i \in 1..Len(occurrences) |-> occurrences[i].loc])]])
    IN  SelectSeq(hashes, LAMBDA g : g.count > 1)

DuplicateGroups(repo, block_size) == Groups(AllBlocks(CodeFiles(repo, ExcludedDirs), block_size))

MaxDuplicateGroups == 20

\* Mutant: the first groups found are kept, then sorted
find_duplicate_blocks_CutBeforeSort(repo, block_size) ==
    LET by_count(duplicates) ==
            sorted(duplicates, list([i \in 1..Len(duplicates) |-> <<duplicates[i].count>>]), TRUE)
    IN  by_count(FirstN(DuplicateGroups(repo, block_size), MaxDuplicateGroups))

\* Mutant: every group is returned
find_duplicate_blocks_EveryGroup(repo, block_size) ==
    LET by_count(duplicates) ==
            sorted(duplicates, list([i \in 1..Len(duplicates) |-> <<duplicates[i].count>>]), TRUE)
    IN  by_count(DuplicateGroups(repo, block_size))

find_duplicate_blocks(repo, block_size) ==
    LET by_count(duplicates) ==
            sorted(duplicates, list([i \in 1..Len(duplicates) |-> <<duplicates[i].count>>]), TRUE)
    IN  FirstN(by_count(DuplicateGroups(repo, block_size)), MaxDuplicateGroups)

DaysPerMonth == 30

\* The calendar date of time 0, a local midnight: (year, month, day)
Epoch == <<2025, 12, 1>>

MonthLength(y, m) ==
    IF m = 2 THEN (IF (y % 4 = 0 /\ y % 100 # 0) \/ y % 400 = 0 THEN 29 ELSE 28)
    ELSE IF m \in {4, 6, 9, 11} THEN 30 ELSE 31

\* The date d days after the first of month m of year y
RECURSIVE CivilDate(_, _, _)
CivilDate(y, m, d) ==
    IF d < MonthLength(y, m) THEN <<y, m, d + 1>>
    ELSE CivilDate(IF m = 12 THEN y + 1 ELSE y, IF m = 12 THEN 1 ELSE m + 1, d - MonthLength(y, m))

\* %Y, %m, %d: a number in `width` decimal digits, zero-padded
Decimal(n, width) ==
    list([i \in 1..width |-> Digits[((n \div (10 ^ (width - i))) % 10) + 1]])

\* Mutant: month and day without the leading zero
strftime_Unpadded(t) ==
    LET date == CivilDate(Epoch[1], Epoch[2], Epoch[3] - 1 + t \div TicksPerDay)
        number(n) == IF n < 10 THEN Decimal(n, 1) ELSE Decimal(n, 2)
    IN  Decimal(date[1], 4) \o <<"-">> \o number(date[2]) \o <<"-">> \o number(date[3])

\* mtime.strftime('%Y-%m-%d')
strftime(t) ==
    LET date == CivilDate(Epoch[1], Epoch[2], Epoch[3] - 1 + t \div TicksPerDay)
    IN  Decimal(date[1], 4) \o <<"-">> \o Decimal(date[2], 2) \o <<"-">> \o Decimal(date[3], 2)

\* (rel_path, last_modified) of the files modified before the cutoff
Older(code, cutoff_date) ==
    LET old == SelectSeq(code, LAMBDA f : f.mtime < cutoff_date)
    IN  list([i \in 1..Len(old) |-> <<relpath(old[i]), strftime(old[i].mtime)>>])

find_stale_files(repo, months, clock) ==
    LET by_date(stale_files) ==
            sorted(stale_files, list([i \in 1..Len(stale_files) |-> StrKey(stale_files[i][2])]), FALSE)
    IN  by_date(Older(CodeFiles(repo, ExcludedDirs), clock - DaysPerMonth * months * TicksPerDay))

\* The list `untested` before it is sorted
Untested(repo, code) ==
    LET is_test(f) == \/ contains(lower(filepath(repo, f)), <<"t", "e", "s", "t">>)
                      \/ contains(lower(filepath(repo, f)), <<"s", "p", "e", "c">>)
        test_files == {relpath(code[i]) : i \in {j \in 1..Len(code) : is_test(code[j])}}
        \* the set source_files, listed in the order of the walk
        sources == SelectSeq(code, LAMBDA f : ~is_test(f))
        source_files == list([i \in 1..Len(sources) |-> relpath(sources[i])])
        has_test(source_file) ==
            \E test_file \in test_files :
                \/ contains(test_file, replace(source_file, <<".", "p", "y">>))
                \/ contains(test_file, replace(source_file, <<".", "j", "s">>))
    IN  SelectSeq(source_files, LAMBDA s : ~has_test(s))

find_untested_code(repo) ==
    LET in_order(untested) == sorted(untested, list([i \in 1..Len(untested) |-> StrKey(untested[i])]), FALSE)
    IN  in_order(Untested(repo, CodeFiles(repo, ExcludedDirs)))

\* \s*[\(:] after the name (group 3)
NameEnd(name, rest) ==
    IF Drop(rest, Span(rest, Whitespace)) # <<>> /\ Head(Drop(rest, Span(rest, Whitespace))) \in {"(", ":"}
    THEN Some(name) ELSE None

\* (\w+) and what follows it
NameAt(rest) ==
    IF Span(rest, WordChars) = 0 THEN None
    ELSE NameEnd(SubSeq(rest, 1, Span(rest, WordChars)), Drop(rest, Span(rest, WordChars)))

\* \s+ after the keyword and what follows it
NameAfter(rest) ==
    IF Span(rest, Whitespace) = 0 THEN None ELSE NameAt(Drop(rest, Span(rest, Whitespace)))

\* (def|class) and what follows it
Keyword(rest) ==
    IF startswith(rest, <<"d", "e", "f">>) THEN NameAfter(Drop(rest, 3))
    ELSE IF startswith(rest, <<"c", "l", "a", "s", "s">>) THEN NameAfter(Drop(rest, 5))
    ELSE None

\* python_def_pattern.match(line), the pattern being ^(\s*)(def|class)\s+(\w+)\s*[\(:]:
\* <<name>> (group 3) or None
python_def_pattern(line) == Keyword(Drop(line, Span(line, Whitespace)))

\* docstring_pattern.match(line), the pattern being ^\s*["\']{"3}|^\s*["\']{\'{3}:
\* {"3} is no quantifier, so the four characters are literal, and so is the { of
\* the second alternative, whose \'{3} is three single quotes
docstring_pattern(line) ==
    LET r == Drop(line, Span(line, Whitespace))
    IN  /\ r # <<>>
        /\ r[1] \in {"\"", "'"}
        /\ \/ startswith(Tail(r), <<"{", "\"", "3", "}">>)
           \/ startswith(Tail(r), <<"{", "'", "'", "'">>)

\* for j in range(i + 1, min(i + 5, len(lines))), lines being numbered from 1 here
RECURSIVE HasDocstring(_, _, _)
HasDocstring(lines, j, last) ==
    IF j > last THEN FALSE
    ELSE IF strip(lines[j]) = <<>> THEN HasDocstring(lines, j + 1, last)
    ELSE docstring_pattern(lines[j])

\* The undocumented names of one file, in line order
UndocumentedNames(f) ==
    IF ~f.readable THEN <<>>
    ELSE LET lines == f.lines
             last(i) == IF i + 4 < Len(lines) THEN i + 4 ELSE Len(lines)
             hits == SelectSeq(list([i \in 1..Len(lines) |-> i]),
                               LAMBDA i : /\ python_def_pattern(lines[i]) # None
                                          /\ ~HasDocstring(lines, i + 1, last(i)))
         IN  list([k \in 1..Len(hits) |-> python_def_pattern(lines[hits[k]])[1]])

\* dict(undocumented) as its items: <<rel_path, names>>, files with no name left out
Undocumented(py) ==
    SelectSeq(list([i \in 1..Len(py) |-> <<relpath(py[i]), UndocumentedNames(py[i])>>]),
              LAMBDA x : x[2] # <<>>)

find_undocumented_code(repo) ==
    Undocumented(SelectSeq(walk(repo, ExcludedDirs), LAMBDA f : endswith(f.name, <<".", "p", "y">>)))

\* Mutant: a lock file is checked before the manifests that are no lock files
ManifestNames_LockFirst == <<<<"P", "i", "p", "f", "i", "l", "e", ".", "l", "o", "c", "k">>, <<"r", "e", "q", "u", "i", "r", "e", "m", "e", "n", "t", "s", ".", "t", "x", "t">>, <<"s", "e", "t", "u", "p", ".", "p", "y">>, <<"p", "y", "p", "r", "o", "j", "e", "c", "t", ".", "t", "o", "m", "l">>,
                             <<"p", "a", "c", "k", "a", "g", "e", "-", "l", "o", "c", "k", ".", "j", "s", "o", "n">>, <<"y", "a", "r", "n", ".", "l", "o", "c", "k">>>>

ManifestNames == <<<<"r", "e", "q", "u", "i", "r", "e", "m", "e", "n", "t", "s", ".", "t", "x", "t">>, <<"s", "e", "t", "u", "p", ".", "p", "y">>, <<"p", "y", "p", "r", "o", "j", "e", "c", "t", ".", "t", "o", "m", "l">>,
                   <<"P", "i", "p", "f", "i", "l", "e", ".", "l", "o", "c", "k">>, <<"p", "a", "c", "k", "a", "g", "e", "-", "l", "o", "c", "k", ".", "j", "s", "o", "n">>, <<"y", "a", "r", "n", ".", "l", "o", "c", "k">>>>

\* os.path.exists(os.path.join(repo_path, fname))
exists(repo, fname) ==
    /\ repo.kind = "dir"
    /\ \E i \in 1..Len(repo.files) : repo.files[i].dir = <<>> /\ repo.files[i].name = fname

getmtime(repo, fname) ==
    LET i == CHOOSE k \in 1..Len(repo.files) :
                 repo.files[k].dir = <<>> /\ repo.files[k].name = fname
    IN  repo.files[i].mtime

\* Mutant: the first file found decides has_lock_file
DependencyStep_FirstFileDecides(res, fname, age_days) ==
    [has_requirements |-> res.has_requirements \/ contains(fname, <<"r", "e", "q", "u", "i", "r", "e", "m", "e", "n", "t", "s">>)
                              \/ contains(fname, <<"p", "y", "p", "r", "o", "j", "e", "c", "t">>) \/ contains(fname, <<"s", "e", "t", "u", "p">>),
     has_lock_file |-> IF res.lock_file_age_days = None THEN contains(fname, <<"l", "o", "c", "k">>) ELSE res.has_lock_file,
     lock_file_age_days |-> IF res.lock_file_age_days = None \/ age_days < res.lock_file_age_days[1]
                            THEN Some(age_days) ELSE res.lock_file_age_days,
     deprecated_packages |-> res.deprecated_packages]

\* Mutant: the age of the oldest file found is kept
DependencyStep_OldestFile(res, fname, age_days) ==
    [has_requirements |-> res.has_requirements \/ contains(fname, <<"r", "e", "q", "u", "i", "r", "e", "m", "e", "n", "t", "s">>)
                              \/ contains(fname, <<"p", "y", "p", "r", "o", "j", "e", "c", "t">>) \/ contains(fname, <<"s", "e", "t", "u", "p">>),
     has_lock_file |-> contains(fname, <<"l", "o", "c", "k">>),
     lock_file_age_days |-> IF res.lock_file_age_days = None \/ age_days > res.lock_file_age_days[1]
                            THEN Some(age_days) ELSE res.lock_file_age_days,
     deprecated_packages |-> res.deprecated_packages]

\* The body of the loop of analyze_dependency_age for a filename that exists
DependencyStep(res, fname, age_days) ==
    [has_requirements |->
         \/ res.has_requirements
         \/ contains(fname, <<"r", "e", "q", "u", "i", "r", "e", "m", "e", "n", "t", "s">>) \/ contains(fname, <<"p", "y", "p", "r", "o", "j", "e", "c", "t">>) \/ contains(fname, <<"s", "e", "t", "u", "p">>),
     has_lock_file |-> contains(fname, <<"l", "o", "c", "k">>),
     lock_file_age_days |->
         IF res.lock_file_age_days = None \/ age_days < res.lock_file_age_days[1]
         THEN Some(age_days) ELSE res.lock_file_age_days,
     deprecated_packages |-> res.deprecated_packages]

\* The loop of analyze_dependency_age from the k-th filename on
RECURSIVE DependencyLoop(_, _, _, _)
DependencyLoop(repo, clock, k, res) ==
    IF k > Len(ManifestNames) THEN res
    ELSE IF exists(repo, ManifestNames[k])
    THEN DependencyLoop(repo, clock, k + 1,
                        DependencyStep(res, ManifestNames[k],
                                       (clock - getmtime(repo, ManifestNames[k])) \div TicksPerDay))
    ELSE DependencyLoop(repo, clock, k + 1, res)

analyze_dependency_age(repo, clock) ==
    DependencyLoop(repo, clock, 1,
                   [has_requirements |-> FALSE, has_lock_file |-> FALSE,
                    lock_file_age_days |-> None, deprecated_packages |-> <<>>])

----------------------------------------------------------------------------
(* analyzer.py.  estimated_hours and total_hours are in half-hours.  A      *)
(* category carries its name, hours, severity, affected_files (the data of  *)
(* the display strings) and details; the recommendation texts are left out. *)

CRITICAL == 4

HIGH == 3

MEDIUM == 2

LOW == 1

Severity == {CRITICAL, HIGH, MEDIUM, LOW}

REFACTOR_HOURS_PER_FILE == 10

DUP_HOURS_PER_BLOCK == 3

TEST_HOURS_PER_FILE == 4

\* DOC_HOURS_PER_ITEM = 0.5
DOC_HALF_HOURS_PER_ITEM == 1

STALE_HOURS_PER_FILE == 6

DEPENDENCY_BASE_HOURS == 5

COMPLEXITY_THRESHOLD == 500

STALE_MONTHS == 12

BLOCK_SIZE == 5

HalfHoursPerHour == 2

Hours(h) == HalfHoursPerHour * h

ComplexitySeverity(n) ==
    IF n > 20 THEN CRITICAL ELSE IF n > 10 THEN HIGH ELSE IF n > 5 THEN MEDIUM ELSE LOW

ComplexityCategory(complex_files) ==
    [name |-> "Complexity Debt",
     estimated_hours |-> Hours(Len(complex_files) * REFACTOR_HOURS_PER_FILE),
     severity |-> ComplexitySeverity(Len(complex_files)),
     affected_files |-> FirstN(complex_files, 10),
     details |-> [file_count |-> Len(complex_files)]]

_analyze_complexity(repo) == ComplexityCategory(find_complex_files(repo, COMPLEXITY_THRESHOLD))

DuplicationSeverity(duplicate_count) ==
    IF duplicate_count > 30 THEN CRITICAL
    ELSE IF duplicate_count > 15 THEN HIGH
    ELSE IF duplicate_count > 5 THEN MEDIUM ELSE LOW

DuplicationCategory(duplicates) ==
    LET duplicate_count == Len(duplicates)
        total_blocks == SumSeq([i \in 1..Len(duplicates) |-> duplicates[i].count])
        top == FirstN(duplicates, 5)
        files(dup) == {dup.locations[i][1] : i \in 1..Len(dup.locations)}
    IN  [name |-> "Duplication Debt",
         estimated_hours |-> Hours(duplicate_count * DUP_HOURS_PER_BLOCK),
         severity |-> DuplicationSeverity(duplicate_count),
         affected_files |-> [i \in 1..Len(top) |-> <<Cardinality(files(top[i])), top[i].count>>],
         details |-> [duplicate_blocks |-> duplicate_count, total_occurrences |-> total_blocks]]

_analyze_duplication(repo) == DuplicationCategory(find_duplicate_blocks(repo, BLOCK_SIZE))

\* Mutant: the top tier starts at 50 instead of above it
TestSeverity_AtThreshold(n) ==
    IF n >= 50 THEN CRITICAL ELSE IF n > 25 THEN HIGH ELSE IF n > 10 THEN MEDIUM ELSE LOW

TestSeverity(n) ==
    IF n > 50 THEN CRITICAL ELSE IF n > 25 THEN HIGH ELSE IF n > 10 THEN MEDIUM ELSE LOW

TestCategory(untested_files) ==
    [name |-> "Test Coverage Debt",
     estimated_hours |-> Hours(Len(untested_files) * TEST_HOURS_PER_FILE),
     severity |-> TestSeverity(Len(untested_files)),
     affected_files |-> FirstN(untested_files, 10),
     details |-> [untested_files |-> Len(untested_files)]]

_analyze_tests(repo) == TestCategory(find_untested_code(repo))

DocumentationSeverity(total_undocumented) ==
    IF total_undocumented > 100 THEN CRITICAL
    ELSE IF total_undocumented > 50 THEN HIGH
    ELSE IF total_undocumented > 20 THEN MEDIUM ELSE LOW

DocumentationCategory(undocumented) ==
    LET total_undocumented == SumSeq([i \in 1..Len(undocumented) |-> Len(undocumented[i][2])])
        top == FirstN(undocumented, 5)
    IN  [name |-> "Documentation Debt",
         estimated_hours |-> total_undocumented * DOC_HALF_HOURS_PER_ITEM,
         severity |-> DocumentationSeverity(total_undocumented),
         affected_files |-> [i \in 1..Len(top) |-> <<top[i][1], Len(top[i][2])>>],
         details |-> [undocumented_count |-> total_undocumented]]

_analyze_documentation(repo) == DocumentationCategory(find_undocumented_code(repo))

StaleSeverity(n) ==
    IF n > 30 THEN CRITICAL ELSE IF n > 15 THEN HIGH ELSE IF n > 5 THEN MEDIUM ELSE LOW

StaleCategory(stale_files) ==
    [name |-> "Stale Code Debt",
     estimated_hours |-> Hours(Len(stale_files) * STALE_HOURS_PER_FILE),
     severity |-> StaleSeverity(Len(stale_files)),
     affected_files |-> FirstN(stale_files, 10),
     details |-> [stale_files |-> Len(stale_files)]]

_analyze_stale_code(repo, clock) == StaleCategory(find_stale_files(repo, STALE_MONTHS, clock))

\* `x and x > n`: None and 0 are falsy
AgeOver(lock_file_age_days, n) ==
    /\ lock_file_age_days # None
    /\ lock_file_age_days[1] # 0
    /\ lock_file_age_days[1] > n

\* Mutant: CRITICAL is forced only when none of the checked files exists
DependencyPolicy_AnyFile(dep_analysis) ==
    LET by_age == IF AgeOver(dep_analysis.lock_file_age_days, 180) THEN HIGH
                  ELSE IF AgeOver(dep_analysis.lock_file_age_days, 90) THEN MEDIUM
                  ELSE LOW
    IN  IF ~dep_analysis.has_requirements /\ dep_analysis.lock_file_age_days = None
        THEN [severity |-> CRITICAL, estimated_hours |-> Hours(DEPENDENCY_BASE_HOURS + 3)]
        ELSE [severity |-> by_age, estimated_hours |-> Hours(DEPENDENCY_BASE_HOURS)]

\* The severity and the hours of _analyze_dependencies
DependencyPolicy(dep_analysis) ==
    LET by_age == IF AgeOver(dep_analysis.lock_file_age_days, 180) THEN HIGH
                  ELSE IF AgeOver(dep_analysis.lock_file_age_days, 90) THEN MEDIUM
                  ELSE LOW
    IN  IF ~dep_analysis.has_requirements
        THEN [severity |-> CRITICAL, estimated_hours |-> Hours(DEPENDENCY_BASE_HOURS + 3)]
        ELSE [severity |-> by_age, estimated_hours |-> Hours(DEPENDENCY_BASE_HOURS)]

DependencyCategory(dep_analysis) ==
    LET policy == DependencyPolicy(dep_analysis)
        age_days == IF dep_analysis.lock_file_age_days = None
                    THEN 0 ELSE dep_analysis.lock_file_age_days[1]
    IN  [name |-> "Dependency Debt",
         estimated_hours |-> policy.estimated_hours,
         severity |-> policy.severity,
         affected_files |->
             (IF dep_analysis.has_requirements THEN <<"manifests">> ELSE <<>>)
             \o (IF dep_analysis.has_lock_file THEN <<<<"lock files", age_days>>>> ELSE <<>>),
         details |-> dep_analysis]

_analyze_dependencies(repo, clock) == DependencyCategory(analyze_dependency_age(repo, clock))

\* Mutant: the complexity category is computed from the files' age
Categories_ComplexityByAge(repo, clock) ==
    << <<"Complexity Debt", [_analyze_stale_code(repo, clock) EXCEPT !.name = "Complexity Debt"]>>,
       <<"Duplication Debt", _analyze_duplication(repo)>>,
       <<"Test Coverage Debt", _analyze_tests(repo)>>,
       <<"Documentation Debt", _analyze_documentation(repo)>>,
       <<"Stale Code Debt", _analyze_stale_code(repo, clock)>>,
       <<"Dependency Debt", _analyze_dependencies(repo, clock)>> >>

\* Mutant: the dependency category is stored under the key of the stale one
Categories_KeyReused(repo, clock) ==
    << <<"Complexity Debt", _analyze_complexity(repo)>>,
       <<"Duplication Debt", _analyze_duplication(repo)>>,
       <<"Test Coverage Debt", _analyze_tests(repo)>>,
       <<"Documentation Debt", _analyze_documentation(repo)>>,
       <<"Stale Code Debt", _analyze_dependencies(repo, clock)>> >>

\* The categories dict as its items, in insertion order
Categories(repo, clock) ==
    << <<"Complexity Debt", _analyze_complexity(repo)>>,
       <<"Duplication Debt", _analyze_duplication(repo)>>,
       <<"Test Coverage Debt", _analyze_tests(repo)>>,
       <<"Documentation Debt", _analyze_documentation(repo)>>,
       <<"Stale Code Debt", _analyze_stale_code(repo, clock)>>,
       <<"Dependency Debt", _analyze_dependencies(repo, clock)>> >>

\* Mutant: the last category is left out of the sum
TotalHours_SkipsLast(categories) ==
    SumSeq([i \in 1..(Len(categories) - 1) |-> categories[i][2].estimated_hours])

TotalHours(categories) ==
    SumSeq([i \in 1..Len(categories) |-> categories[i][2].estimated_hours])

\* The numbers the summary text is made of
_generate_summary(categories, total_hours) ==
    [total_hours |-> total_hours,
     critical_count |-> Cardinality({i \in 1..Len(categories) : categories[i][2].severity = CRITICAL}),
     high_count |-> Cardinality({i \in 1..Len(categories) : categories[i][2].severity = HIGH})]

\* The DebtResult; repo.path is absolute, so os.path.abspath leaves it as it is
Result(repo_path_abs, categories, analyzed_at) ==
    [repo_path |-> repo_path_abs,
     total_hours |-> TotalHours(categories),
     categories |-> categories,
     analyzed_at |-> analyzed_at,
     summary |-> _generate_summary(categories, TotalHours(categories))]

DebtResult(repo, clock) == Result(repo.path, Categories(repo, clock), clock)

\* Mutant: the path is validated, as the scan command does before its call
analyze_Validates(repo, clock) ==
    IF repo.kind # "dir" THEN [status |-> "raised"]
    ELSE [status |-> "returned", value |-> DebtResult(repo, clock)]

\* How a call of analyze() ends: no statement of analyze raises, and every scanner
\* swallows the errors of the entries it cannot walk or read
analyze(repo, clock) == [status |-> "returned", value |-> DebtResult(repo, clock)]

\* Mutant: the ranking looks at the severity alone
sorted_categories_SeverityOnly(debt_result) ==
    LET items == debt_result.categories
    IN  sorted(items, list([i \in 1..Len(items) |-> <<items[i][2].severity>>]), TRUE)

sorted_categories(debt_result) ==
    LET items == debt_result.categories
    IN  sorted(items,
               list([i \in 1..Len(items) |-> <<items[i][2].severity, items[i][2].estimated_hours>>]),
               TRUE)

----------------------------------------------------------------------------
(* The environment: a directory tree that is written to while the clock    *)
(* runs, and a caller of analyze() and DebtResult.sorted_categories().      *)

\* Bounds of the explored runs
MaxWrites == 2

MaxCalls == 2

MaxDays == 362

Roots == {<<"/", "r">>}

RootKinds == {"dir", "file", "missing"}

DocumentedLines == <<<<"d", "e", "f", " ", "h", "e", "l", "l", "o", "(", ")", ":">>, <<" ", " ", " ", " ", "\"", "\"", "\"", "S", "a", "y", " ", "h", "e", "l", "l", "o", ".", "\"", "\"", "\"">>, <<" ", " ", " ", " ", "p", "a", "s", "s">>>>

UndocumentedLines == <<<<"d", "e", "f", " ", "g", "(", ")", ":">>, <<" ", " ", " ", " ", "p", "a", "s", "s">>>>

\* "x = 1\ny = 2\nz = 3\n" * 5
RepeatedLines == [i \in 1..15 |-> <<<<"x", " ", "=", " ", "1">>, <<"y", " ", "=", " ", "2">>, <<"z", " ", "=", " ", "3">>>>[((i - 1) % 3) + 1]]

\* What the environment writes: path, text, and whether it can be read back
Sources ==
    { [dir |-> <<>>, name |-> <<"a", ".", "p", "y">>, lines |-> DocumentedLines, readable |-> TRUE],
      [dir |-> <<<<"t", "e", "s", "t", "s">>>>, name |-> <<"t", "e", "s", "t", "_", "a", ".", "p", "y">>, lines |-> RepeatedLines, readable |-> TRUE],
      [dir |-> <<<<"n", "o", "d", "e", "_", "m", "o", "d", "u", "l", "e", "s">>>>, name |-> <<"m", ".", "j", "s">>, lines |-> UndocumentedLines, readable |-> TRUE],
      [dir |-> <<>>, name |-> <<"r", "e", "q", "u", "i", "r", "e", "m", "e", "n", "t", "s", ".", "t", "x", "t">>, lines |-> <<>>, readable |-> TRUE] }

\* The clock advances by half a year at a time
ClockSteps == {181 * TicksPerDay}

Repo == [path |-> repo_path, kind |-> rootKind, files |-> fs]

NoCall == [outcome |-> [status |-> "none"], generation |-> 0]

NoRanking == [done |-> FALSE]

\* No scanner has been called on its own yet
NoScan == [op |-> "none"]

Init ==
    /\ repo_path \in Roots
    /\ rootKind \in RootKinds
    /\ fs = <<>>
    /\ now = 0
    /\ writes = 0
    /\ calls = 0
    /\ result = NoCall
    /\ prev = NoCall
    /\ ranked = NoRanking
    /\ scanned = NoScan

\* A file is created, or rewritten in place, at the current time
WriteFile(src) ==
    /\ rootKind = "dir"
    /\ writes < MaxWrites
    /\ LET f == [dir |-> src.dir, name |-> src.name, lines |-> src.lines,
                 mtime |-> now, readable |-> src.readable]
           at == {i \in 1..Len(fs) : fs[i].dir = src.dir /\ fs[i].name = src.name}
       IN  fs' = IF at = {} THEN Append(fs, f)
                 ELSE [i \in 1..Len(fs) |-> IF i \in at THEN f ELSE fs[i]]
    /\ writes' = writes + 1
    /\ UNCHANGED <<repo_path, rootKind, now, calls, result, prev, ranked, scanned>>

Tick(d) ==
    /\ now + d <= MaxDays * TicksPerDay
    /\ now' = now + d
    /\ UNCHANGED <<repo_path, rootKind, fs, writes, calls, result, prev, ranked, scanned>>

\* TechnicalDebtAnalyzer().analyze(repo_path); generation tells which state of the
\* tree the call saw
Analyze ==
    /\ calls < MaxCalls
    /\ calls' = calls + 1
    /\ prev' = result
    /\ result' = [outcome |-> analyze(Repo, now), generation |-> writes]
    /\ UNCHANGED <<repo_path, rootKind, fs, now, writes, ranked, scanned>>

\* result.sorted_categories() on the DebtResult last returned
SortedCategories ==
    /\ result.outcome.status = "returned"
    /\ IF ranked.done THEN ranked.of # result.outcome.value ELSE TRUE
    /\ ranked' = [done |-> TRUE, of |-> result.outcome.value,
                  list |-> sorted_categories(result.outcome.value)]
    /\ UNCHANGED <<repo_path, rootKind, fs, now, writes, calls, result, prev, scanned>>

Next ==
    \/ \E src \in Sources : WriteFile(src)
    \/ \E d \in ClockSteps : Tick(d)
    \/ Analyze
    \/ SortedCategories

Spec == Init /\ [][Next]_vars

----------------------------------------------------------------------------
(* Repositories by size: the trees on which the policy tables of the        *)
(* aggregator reach every tier.  Each is analysed as it stands.             *)

\* Bounds: how many items of each kind the trees hold at most
MaxComplexFiles == 22

MaxPlainFiles == 52

MaxDefinitions == 102

MaxCycle == 32

\* Three decimal digits
Numeral(i) == <<Digits[((i \div 100) % 10) + 1], Digits[((i \div 10) % 10) + 1], Digits[(i % 10) + 1]>>

PlainFile(dir, name, lines) ==
    [dir |-> dir, name |-> name, lines |-> lines, mtime |-> 0, readable |-> TRUE]

\* n files of COMPLEXITY_THRESHOLD + 1 code lines and one of COMPLEXITY_THRESHOLD
ComplexTree(n) ==
    [i \in 1..n |-> PlainFile(<<>>, <<"m">> \o Numeral(i) \o <<".", "p", "y">>,
                              [k \in 1..(COMPLEXITY_THRESHOLD + 1) |-> <<"p", "a", "s", "s">>])]
    \o << PlainFile(<<>>, <<"e", "d", "g", "e", ".", "p", "y">>, [k \in 1..COMPLEXITY_THRESHOLD |-> <<"p", "a", "s", "s">>]) >>

\* n empty source files, the first of them with a test file
PlainTree(n) ==
    [i \in 1..n |-> PlainFile(<<>>, <<"u">> \o Numeral(i) \o <<".", "j", "s">>, <<>>)]
    \o (IF n > 0 THEN << PlainFile(<<<<"t", "e", "s", "t", "s">>>>, <<"t", "e", "s", "t", "_", "u", "0", "0", "1", ".", "j", "s">>, <<>>) >> ELSE <<>>)

\* n definitions without a docstring over two files
DefinitionsTree(n) ==
    LET body(k) == [i \in 1..(2 * k) |-> IF i % 2 = 1 THEN <<"d", "e", "f", " ", "f", "(", ")", ":">> ELSE <<" ", " ", " ", " ", "p", "a", "s", "s">>]
    IN  << PlainFile(<<>>, <<"d", "1", ".", "p", "y">>, body(n \div 2)),
           PlainFile(<<>>, <<"d", "2", ".", "p", "y">>, body(n - (n \div 2))) >>

\* One file of p distinct lines written twice, then the first BLOCK_SIZE - 1 of
\* them again: p windows, each seen twice
CycleTree(p) ==
    IF p = 0 THEN <<>>
    ELSE << PlainFile(<<>>, <<"c", ".", "t", "s">>,
                      [i \in 1..(2 * p + BLOCK_SIZE - 1) |-> <<"x">> \o Numeral((i - 1) % p)]) >>

\* The counts of complex files around the tiers of the complexity table
ComplexCounts == {0, 1, 5, 6, 10, 11, 20, 21, MaxComplexFiles}

SizedTrees ==
    {ComplexTree(n) : n \in ComplexCounts}
        \cup {PlainTree(n) : n \in 0..MaxPlainFiles}
        \cup {DefinitionsTree(n) : n \in 0..MaxDefinitions}
        \cup {CycleTree(p) : p \in 0..MaxCycle}

Manifest == PlainFile(<<>>, <<"r", "e", "q", "u", "i", "r", "e", "m", "e", "n", "t", "s", ".", "t", "x", "t">>, <<>>)

\* The tree is a day old, or STALE_MONTHS months and a day
SizedClocks == {TicksPerDay, (DaysPerMonth * STALE_MONTHS + 1) * TicksPerDay}

InitSized ==
    /\ repo_path \in Roots
    /\ rootKind = "dir"
    /\ \E tree \in SizedTrees : fs \in {tree, tree \o <<Manifest>>}
    /\ now \in SizedClocks
    /\ writes = 0
    /\ calls = 0
    /\ result = NoCall
    /\ prev = NoCall
    /\ ranked = NoRanking
    /\ scanned = NoScan

NextScan == Analyze \/ SortedCategories

SpecSized == InitSized /\ [][NextScan]_vars

----------------------------------------------------------------------------
(* Repositories by manifests: every choice of the six checked filenames,    *)
(* each absent, DepsOldDays days old at time 0 of the clocks below, or new.  *)

ManifestStates == {"absent", "old", "new"}

DepsOldDays == 90

ManifestTree(p) ==
    LET present == SelectSeq(list([k \in 1..Len(ManifestNames) |-> k]), LAMBDA k : p[k] # "absent")
    IN  list([i \in 1..Len(present) |->
                [dir |-> <<>>, name |-> ManifestNames[present[i]], lines |-> <<>>,
                 mtime |-> IF p[present[i]] = "old" THEN 0 ELSE DepsOldDays * TicksPerDay,
                 readable |-> TRUE]])

\* Days since the new manifests were written, as whole days or a tick more
DepsDays == {0, 90, 91, 181}

DepsClocks == {(DepsOldDays + d) * TicksPerDay + t : d \in DepsDays, t \in {0, 1}}

InitDeps ==
    /\ repo_path \in Roots
    /\ rootKind = "dir"
    /\ \E p \in [1..Len(ManifestNames) -> ManifestStates] : fs = ManifestTree(p)
    /\ now \in DepsClocks
    /\ writes = 0
    /\ calls = 0
    /\ result = NoCall
    /\ prev = NoCall
    /\ ranked = NoRanking
    /\ scanned = NoScan

SpecDeps == InitDeps /\ [][NextScan]_vars

----------------------------------------------------------------------------
(* The scanners called on their own: each action is one call of a function  *)
(* of metrics.py on the tree as it stands, and `scanned` keeps what it      *)
(* returned together with the arguments it was given.                       *)

\* Bound: how many files of the pool a tree draws from
MaxPool == 9

ModuleLines == <<<<"x", " ", "=", " ", "1">>, <<"y", " ", "=", " ", "2">>, <<"z", " ", "=", " ", "3">>>>

\* A listing of files, the files of the root before those of its directories;
\* mtime in ticks
Pool ==
    << [dir |-> <<>>, name |-> <<"u", "t", "i", "l", ".", "j", "s">>, lines |-> ModuleLines, mtime |-> 20, readable |-> TRUE],
       [dir |-> <<>>, name |-> <<"c", "o", "r", "e", ".", "p", "y">>, lines |-> ModuleLines, mtime |-> 19, readable |-> TRUE],
       [dir |-> <<>>, name |-> <<"t", "a", ".", "j", "s", "x">>, lines |-> <<<<"x", " ", "=", " ", "1">>>>, mtime |-> 70, readable |-> TRUE],
       [dir |-> <<>>, name |-> <<"R", "E", "A", "D", "M", "E", ".", "m", "d">>, lines |-> ModuleLines \o ModuleLines, mtime |-> 0, readable |-> TRUE],
       [dir |-> <<<<"t", "e", "s", "t", "s">>>>, name |-> <<"t", "e", "s", "t", "_", "s", "y", "n", "t", "a", "x", ".", "p", "y">>, lines |-> UndocumentedLines, mtime |-> 80, readable |-> TRUE],
       [dir |-> <<<<"S", "p", "e", "c">>>>, name |-> <<"H", "e", "l", "p", "e", "r", ".", "t", "s">>, lines |-> ModuleLines \o <<<<"w", " ", "=", " ", "4">>>>, mtime |-> 79, readable |-> TRUE],
       [dir |-> <<<<"d", "i", "s", "t">>>>, name |-> <<"g", "e", "n", ".", "p", "y">>, lines |-> UndocumentedLines, mtime |-> 0, readable |-> TRUE],
       [dir |-> <<<<"n", "o", "d", "e", "_", "m", "o", "d", "u", "l", "e", "s">>>>, name |-> <<"m", ".", "j", "s">>, lines |-> UndocumentedLines, mtime |-> 0, readable |-> TRUE],
       [dir |-> <<<<"s", "r", "c">>>>, name |-> <<"m", "a", "i", "n", ".", "p", "y">>, lines |-> DocumentedLines, mtime |-> 30, readable |-> FALSE],
       [dir |-> <<<<"s", "r", "c">>, <<"b", "u", "i", "l", "d">>>>, name |-> <<"o", "u", "t", ".", "j", "s">>, lines |-> ModuleLines, mtime |-> 5, readable |-> TRUE] >>

\* The files of the pool at the positions `at`, in the order of the listing
PoolFiles(at) ==
    LET present == SelectSeq(list([i \in 1..Len(Pool) |-> i]), LAMBDA i : i \in at)
    IN  list([k \in 1..Len(present) |-> Pool[present[k]]])

PoolTrees == {PoolFiles(at) : at \in SUBSET (1..(IF MaxPool < Len(Pool) THEN MaxPool ELSE Len(Pool)))}

\* Bound: the longest cycle of lines in the trees made for the duplicate scanner
MaxOverlap == 22

\* c.ts repeats a cycle of p lines twice, and d.ts repeats the six lines of
\* c.ts that start two lines before the end of the cycle: the last two windows of
\* the cycle occur three times, every other one twice
OverlapTree(p) ==
    CycleTree(p) \o << PlainFile(<<>>, <<"d", ".", "t", "s">>,
                                 [i \in 1..(BLOCK_SIZE + 1) |-> <<"x">> \o Numeral((p - 3 + i) % p)]) >>

OverlapCycles == {3, 19, 20, 21, MaxOverlap}

OverlapTrees == {OverlapTree(p) : p \in OverlapCycles}

\* Bound: how many lines the files made for the line counter have at most
MaxLines == 3

\* The lines those files are made of: blank, code, comments, and triple-quote
\* delimiters alone, around a text, after code and after a comment sign
LineKinds == {<<" ", " ">>, <<"x", " ", "=", " ", "1">>, <<" ", " ", "#", " ", "c">>, <<"/", "/", " ", "c">>, <<"\"", "\"", "\"">>, <<"\"", "\"", "\"", "d", "\"", "\"", "\"">>, <<"s", " ", "=", " ", "'", "'", "'", "a">>, <<"#", " ", "\"", "\"", "\"">>}

LineTrees == {<<PlainFile(<<>>, <<"l", "i", "n", "e", "s", ".", "p", "y">>, lines)>> : lines \in UNION {[1..n -> LineKinds] : n \in 0..MaxLines}}

\* duplication.py is three lines written five times; blank.py and indent.py hold
\* the same three lines between blank lines, indented in one of them
RepeatTree ==
    << PlainFile(<<>>, <<"b", "l", "a", "n", "k", ".", "p", "y">>, <<<<"x", " ", "=", " ", "1">>, <<"y", " ", "=", " ", "2">>, <<>>, <<"z", " ", "=", " ", "3">>, <<>>>>),
       PlainFile(<<>>, <<"d", "u", "p", "l", "i", "c", "a", "t", "i", "o", "n", ".", "p", "y">>, RepeatedLines),
       PlainFile(<<>>, <<"i", "n", "d", "e", "n", "t", ".", "p", "y">>, <<<<>>, <<" ", " ", "x", " ", "=", " ", "1">>, <<"\t", "y", " ", "=", " ", "2">>, <<"z", " ", "=", " ", "3">>, <<>>>>) >>

\* Repository roots: one whose own name holds "test", in capitals
ScanRoots == {<<"/", "r">>, <<"/", "T", "e", "s", "t", "s">>}

ScanClock == 40 * TicksPerDay

ScanThresholds == {0, 2}

ScanBlockSizes == {2, BLOCK_SIZE}

ScanMonths == {0, 1}

InitScan ==
    /\ \/ repo_path \in ScanRoots /\ fs \in PoolTrees \cup OverlapTrees \cup {RepeatTree}
       \/ repo_path = <<"/", "r">> /\ fs \in LineTrees
    /\ rootKind = "dir"
    /\ now = ScanClock
    /\ writes = 0
    /\ calls = 0
    /\ result = NoCall
    /\ prev = NoCall
    /\ ranked = NoRanking
    /\ scanned = NoScan

ScanComplexFiles(threshold) ==
    /\ scanned' = [op |-> "find_complex_files", threshold |-> threshold,
                   value |-> find_complex_files(Repo, threshold)]
    /\ UNCHANGED <<repo_path, rootKind, fs, now, writes, calls, result, prev, ranked>>

ScanDuplicateBlocks(block_size) ==
    /\ scanned' = [op |-> "find_duplicate_blocks", block_size |-> block_size,
                   value |-> find_duplicate_blocks(Repo, block_size)]
    /\ UNCHANGED <<repo_path, rootKind, fs, now, writes, calls, result, prev, ranked>>

ScanStaleFiles(months) ==
    /\ scanned' = [op |-> "find_stale_files", months |-> months,
                   value |-> find_stale_files(Repo, months, now)]
    /\ UNCHANGED <<repo_path, rootKind, fs, now, writes, calls, result, prev, ranked>>

ScanUntestedCode ==
    /\ scanned' = [op |-> "find_untested_code", value |-> find_untested_code(Repo)]
    /\ UNCHANGED <<repo_path, rootKind, fs, now, writes, calls, result, prev, ranked>>

ScanUndocumentedCode ==
    /\ scanned' = [op |-> "find_undocumented_code", value |-> find_undocumented_code(Repo)]
    /\ UNCHANGED <<repo_path, rootKind, fs, now, writes, calls, result, prev, ranked>>

ScanLinesOfCode(i) ==
    /\ scanned' = [op |-> "get_lines_of_code", file |-> i, value |-> get_lines_of_code(fs[i])]
    /\ UNCHANGED <<repo_path, rootKind, fs, now, writes, calls, result, prev, ranked>>

NextScanners ==
    \/ \E threshold \in ScanThresholds : ScanComplexFiles(threshold)
    \/ \E block_size \in ScanBlockSizes : ScanDuplicateBlocks(block_size)
    \/ \E months \in ScanMonths : ScanStaleFiles(months)
    \/ ScanUntestedCode
    \/ ScanUndocumentedCode
    \/ \E i \in 1..Len(fs) : ScanLinesOfCode(i)

SpecScan == InitScan /\ [][NextScanners]_vars

----------------------------------------------------------------------------
(* Properties *)

Returned == result.outcome.status = "returned"

Res == result.outcome.value

\* The category stored under `name` in a DebtResult
Cat(r, name) == r.categories[CHOOSE i \in 1..Len(r.categories) : r.categories[i][1] = name][2]

CategoryNames == {"Complexity Debt", "Duplication Debt", "Test Coverage Debt",
                  "Documentation Debt", "Stale Code Debt", "Dependency Debt"}

\* The tree the last call saw is the tree as it is now
TreeAsAnalyzed == Returned /\ result.generation = writes

\* C1: the total_hours of the DebtResult that analyze() returns is the sum of the
\* estimated_hours of its categories.
C1_TotalIsSumOfCategories ==
    Returned =>
        Res.total_hours = SumSeq(list([i \in 1..Len(Res.categories) |->
                                          Res.categories[i][2].estimated_hours]))

\* A result whose categories carry different, non-zero hours
C1_Witness ==
    /\ Returned
    /\ Cat(Res, "Duplication Debt").estimated_hours > 0
    /\ Cat(Res, "Documentation Debt").estimated_hours > 0
    /\ Cat(Res, "Dependency Debt").estimated_hours > 0
    /\ Res.total_hours > Cat(Res, "Dependency Debt").estimated_hours

\* C2: analyze() returns exactly the six named categories, each with
\* estimated_hours >= 0 and a severity among LOW, MEDIUM, HIGH, CRITICAL.
C2_SixCategoriesInRange ==
    Returned =>
        /\ Len(Res.categories) = 6
        /\ {Res.categories[i][1] : i \in 1..Len(Res.categories)} = CategoryNames
        /\ \A i \in 1..Len(Res.categories) :
              /\ Res.categories[i][2].estimated_hours >= 0
              /\ Res.categories[i][2].severity \in {LOW, MEDIUM, HIGH, CRITICAL}

\* A result in which three of the four levels occur
C2_Witness ==
    /\ Returned
    /\ Cardinality({Res.categories[i][2].severity : i \in 1..Len(Res.categories)}) >= 3

\* The tier of a count n under the thresholds c > h > m
Tier(n, c, h, m) == IF n > c THEN CRITICAL ELSE IF n > h THEN HIGH ELSE IF n > m THEN MEDIUM ELSE LOW

UndocumentedTotal(repo) ==
    LET found == find_undocumented_code(repo)
    IN  SumSeq(list([i \in 1..Len(found) |-> Len(found[i][2])]))

\* C3: with n the number of items its scanner finds, Complexity is 10*n hours with
\* tiers >20, >10, >5; Test Coverage 4*n with >50, >25, >10; Documentation 0.5*n (n
\* the undocumented symbols of all files) with >100, >50, >20; Stale Code 6*n with
\* >30, >15, >5 (hours are in half-hours here).
C3_CountPolicies ==
    TreeAsAnalyzed =>
        LET nc == Len(find_complex_files(Repo, 500))
            nt == Len(find_untested_code(Repo))
            nd == UndocumentedTotal(Repo)
            ns == Len(find_stale_files(Repo, 12, Res.analyzed_at))
        IN  /\ Cat(Res, "Complexity Debt").estimated_hours = 2 * 10 * nc
            /\ Cat(Res, "Complexity Debt").severity = Tier(nc, 20, 10, 5)
            /\ Cat(Res, "Test Coverage Debt").estimated_hours = 2 * 4 * nt
            /\ Cat(Res, "Test Coverage Debt").severity = Tier(nt, 50, 25, 10)
            /\ Cat(Res, "Documentation Debt").estimated_hours = nd
            /\ Cat(Res, "Documentation Debt").severity = Tier(nd, 100, 50, 20)
            /\ Cat(Res, "Stale Code Debt").estimated_hours = 2 * 6 * ns
            /\ Cat(Res, "Stale Code Debt").severity = Tier(ns, 30, 15, 5)

\* A tree on which two of the tables reach their top tier
C3_Witness ==
    /\ TreeAsAnalyzed
    /\ Len(find_untested_code(Repo)) > 50
    /\ Cat(Res, "Test Coverage Debt").severity = CRITICAL
    /\ Cat(Res, "Stale Code Debt").severity = CRITICAL

\* The fingerprints of the corpus that two or more windows have
DuplicateFingerprints(repo) ==
    LET code == SelectSeq(walk(repo, ExcludedDirs), LAMBDA f : is_code_file(f.name))
        blocks == Flatten([i \in 1..Len(code) |-> FileBlocks(code[i], BLOCK_SIZE)])
    IN  {blocks[i].hash : i \in {j \in 1..Len(blocks) :
                                    \E k \in 1..Len(blocks) : k # j /\ blocks[k].hash = blocks[j].hash}}

\* C4: Duplication Debt is 3 hours for every duplicate group of the repository
\* (fingerprint with 2 or more occurrences), with tiers >30, >15, >5.
C4_DuplicationCountsEveryGroup ==
    TreeAsAnalyzed =>
        LET g == Cardinality(DuplicateFingerprints(Repo))
        IN  /\ Cat(Res, "Duplication Debt").estimated_hours = 2 * 3 * g
            /\ Cat(Res, "Duplication Debt").severity = Tier(g, 30, 15, 5)

\* The files directly under the root whose name is among `names`
RootFiles(names) ==
    IF rootKind # "dir" THEN {}
    ELSE {fs[i] : i \in {j \in 1..Len(fs) : fs[j].dir = <<>> /\ fs[j].name \in names}}

RequirementNames == {<<"r", "e", "q", "u", "i", "r", "e", "m", "e", "n", "t", "s", ".", "t", "x", "t">>, <<"s", "e", "t", "u", "p", ".", "p", "y">>, <<"p", "y", "p", "r", "o", "j", "e", "c", "t", ".", "t", "o", "m", "l">>}

LockNames == {<<"P", "i", "p", "f", "i", "l", "e", ".", "l", "o", "c", "k">>, <<"p", "a", "c", "k", "a", "g", "e", "-", "l", "o", "c", "k", ".", "j", "s", "o", "n">>, <<"y", "a", "r", "n", ".", "l", "o", "c", "k">>}

\* The age tier of the youngest of the checked files present, in whole days at `clock`
AgeTier(clock) ==
    LET ages == {(clock - f.mtime) \div TicksPerDay : f \in RootFiles(RequirementNames \cup LockNames)}
    IN  IF ages = {} THEN LOW
        ELSE IF SetMin(ages) > 180 THEN HIGH
        ELSE IF SetMin(ages) > 90 THEN MEDIUM
        ELSE LOW

Dependency == Cat(Res, "Dependency Debt")

\* C5 as stated: Dependency Debt is CRITICAL with 8 hours only when none of the six
\* checked manifest and lock filenames is present under the root; whenever one of
\* them is, it is 5 hours with the age tier (>180 days HIGH, >90 MEDIUM, else LOW).
C5_ForcedOnlyWithoutAnyManifest ==
    TreeAsAnalyzed =>
        IF RootFiles(RequirementNames \cup LockNames) = {}
        THEN Dependency.severity = CRITICAL /\ Dependency.estimated_hours = 2 * 8
        ELSE Dependency.severity = AgeTier(Res.analyzed_at) /\ Dependency.estimated_hours = 2 * 5

\* C5 amended: Dependency Debt is CRITICAL with 8 hours whenever none of
\* requirements.txt, setup.py and pyproject.toml is present under the root, lock
\* files or not; when one of the three is, it is 5 hours with the age tier of the
\* youngest of the six checked files present (>180 days HIGH, >90 MEDIUM, else LOW).
C5_ForcedWithoutRequirements ==
    TreeAsAnalyzed =>
        IF RootFiles(RequirementNames) = {}
        THEN Dependency.severity = CRITICAL /\ Dependency.estimated_hours = 2 * 8
        ELSE Dependency.severity = AgeTier(Res.analyzed_at) /\ Dependency.estimated_hours = 2 * 5

\* A root with an old lock file and no requirements file, analysed
C5_Witness ==
    /\ TreeAsAnalyzed
    /\ RootFiles(RequirementNames) = {}
    /\ RootFiles(LockNames) # {}
    /\ AgeTier(Res.analyzed_at) = HIGH
    /\ Dependency.severity = CRITICAL
    /\ Dependency.estimated_hours = 2 * 8

\* C6: sorted_categories() returns every (name, category) pair of the result once,
\* by severity descending, and by hours descending within one severity.
C6_SortedBySeverityThenHours ==
    ranked.done =>
        LET pairs == ranked.of.categories
            out == ranked.list
        IN  /\ Len(out) = Len(pairs)
            /\ \A i \in 1..Len(pairs) : Cardinality({j \in 1..Len(out) : out[j] = pairs[i]}) = 1
            /\ \A j, k \in 1..Len(out) :
                  j < k =>
                      /\ out[j][2].severity >= out[k][2].severity
                      /\ out[j][2].severity = out[k][2].severity
                            => out[j][2].estimated_hours >= out[k][2].estimated_hours

\* A ranking that moved the pairs, over three levels and over a tie of severity
C6_Witness ==
    /\ ranked.done
    /\ ranked.list # ranked.of.categories
    /\ Cardinality({ranked.list[j][2].severity : j \in 1..Len(ranked.list)}) >= 3
    /\ \E j, k \in 1..Len(ranked.list) :
          /\ ranked.list[j][2].severity = ranked.list[k][2].severity
          /\ ranked.list[j][2].estimated_hours > ranked.list[k][2].estimated_hours

\* The names find_undocumented_code gives for a file
ReportedNames(f) ==
    LET found == find_undocumented_code(Repo)
        at == {i \in 1..Len(found) : found[i][1] = relpath(f)}
    IN  IF at = {} THEN {}
        ELSE LET names == found[CHOOSE i \in at : TRUE][2]
             IN  {names[k] : k \in 1..Len(names)}

\* C7: find_undocumented_code leaves out a function or class whose definition line
\* is immediately followed by a line starting, once stripped, with a triple quote,
\* and lists the name of one immediately followed by a non-string statement.
C7_DocstringRecognised ==
    \A f \in {fs[i] : i \in {j \in 1..Len(fs) :
                  rootKind = "dir" /\ fs[j].readable /\ endswith(fs[j].name, <<".", "p", "y">>)
                  /\ \A d \in 1..Len(fs[j].dir) : fs[j].dir[d] \notin ExcludedDirs}} :
        \A i \in 1..(Len(f.lines) - 1) :
            python_def_pattern(f.lines[i]) # None =>
                LET name == python_def_pattern(f.lines[i])[1]
                    next == strip(f.lines[i + 1])
                IN  IF startswith(next, TripleDouble) \/ startswith(next, TripleSingle)
                    THEN name \notin ReportedNames(f)
                    ELSE next # <<>> /\ next[1] \notin {"\"", "'"} => name \in ReportedNames(f)

CountCategoryNames == CategoryNames \ {"Dependency Debt"}

\* The result of a root with nothing to scan and no requirements file: the five
\* count-based categories are empty, Dependency Debt is CRITICAL with 8 hours
NothingButDependency(r) ==
    /\ \A name \in CountCategoryNames :
          Cat(r, name).estimated_hours = 0 /\ Cat(r, name).severity = LOW
    /\ Cat(r, "Dependency Debt").estimated_hours = 2 * 8
    /\ Cat(r, "Dependency Debt").severity = CRITICAL
    /\ r.total_hours = 2 * 8

NothingToScan ==
    /\ rootKind = "dir"
    /\ \A i \in 1..Len(fs) : \E d \in 1..Len(fs[i].dir) : fs[i].dir[d] \in ExcludedDirs

\* C9 as stated: on an empty or fully excluded directory analyze() raises nothing
\* and each of the six categories has zero hours or LOW.
C9_EmptyIsZeroOrLow ==
    TreeAsAnalyzed /\ NothingToScan =>
        \A i \in 1..Len(Res.categories) :
            Res.categories[i][2].estimated_hours = 0 \/ Res.categories[i][2].severity = LOW

\* C9 amended: on an empty directory, or one whose files all lie under .git,
\* node_modules, venv, .venv or __pycache__, analyze() raises nothing and returns
\* six categories, the five count-based ones with zero hours and LOW, Dependency
\* Debt with 8 hours and CRITICAL.
C9_EmptyIsDependencyOnly ==
    (calls > 0 /\ result.generation = writes /\ NothingToScan) =>
        /\ Returned
        /\ Len(Res.categories) = 6
        /\ NothingButDependency(Res)

\* A directory holding files, all of them under node_modules, analysed
C9_Witness ==
    /\ TreeAsAnalyzed
    /\ NothingToScan
    /\ fs # <<>>
    /\ Cat(Res, "Dependency Debt").severity = CRITICAL

\* The hours, severity and detail counts of category `name` agree in r1 and r2
SameFindings(r1, r2, name) ==
    /\ Cat(r1, name).estimated_hours = Cat(r2, name).estimated_hours
    /\ Cat(r1, name).severity = Cat(r2, name).severity
    /\ Cat(r1, name).details = Cat(r2, name).details

\* The last two calls both returned and no write fell between them
TwoCallsSameTree ==
    /\ calls >= 2
    /\ prev.outcome.status = "returned"
    /\ Returned
    /\ prev.generation = result.generation

\* C10 as stated: two successive analyze() calls on an unmodified directory give
\* identical hours, severities and detail counts for every category, whatever the
\* time between them.
C10_IdempotentWhateverTheTime ==
    TwoCallsSameTree =>
        \A name \in CategoryNames : SameFindings(prev.outcome.value, Res, name)

\* C10 amended: two successive analyze() calls on an unmodified directory give
\* identical hours, severities and detail counts for Complexity, Duplication, Test
\* Coverage and Documentation Debt, and identical Dependency Debt hours, whatever
\* the time between them; Stale Code and Dependency Debt are identical in full when
\* no time passed between the calls' readings of the clock, and with time passed
\* the Stale Code hours and the Dependency severity can only grow.
C10_IdempotentUpToTheClock ==
    TwoCallsSameTree =>
        LET first == prev.outcome.value
        IN  /\ \A name \in CategoryNames \ {"Stale Code Debt", "Dependency Debt"} :
                  SameFindings(first, Res, name)
            /\ Cat(first, "Dependency Debt").estimated_hours = Dependency.estimated_hours
            /\ first.analyzed_at = Res.analyzed_at =>
                  \A name \in CategoryNames : SameFindings(first, Res, name)
            /\ Cat(first, "Stale Code Debt").estimated_hours
                  <= Cat(Res, "Stale Code Debt").estimated_hours
            /\ Cat(first, "Dependency Debt").severity <= Dependency.severity

\* Two calls on the same tree, a year apart, the second finding stale files
C10_Witness ==
    /\ TwoCallsSameTree
    /\ prev.outcome.value.analyzed_at < Res.analyzed_at
    /\ Cat(Res, "Documentation Debt").estimated_hours > 0
    /\ Cat(prev.outcome.value, "Stale Code Debt").estimated_hours = 0
    /\ Cat(Res, "Stale Code Debt").estimated_hours > 0

----------------------------------------------------------------------------
(* The scanners on their own *)

Scanned(op) == scanned.op = op

\* Where a relative path stands in the listing of the tree
ListingIndex(path) == CHOOSE i \in 1..Len(fs) : relpath(fs[i]) = path

\* The code files a scanner visits when it prunes the directories `excluded`
VisitedCode(excluded) ==
    {i \in 1..Len(fs) : /\ is_code_file(fs[i].name)
                        /\ \A k \in 1..Len(fs[i].dir) : fs[i].dir[k] \notin excluded}

\* (relative path, code lines) of the visited code files above the threshold
ComplexPairs(threshold) ==
    {<<relpath(fs[i]), get_lines_of_code(fs[i])>> :
        i \in {j \in VisitedCode(ExcludedComplexityDirs) : get_lines_of_code(fs[j]) > threshold}}

ExactlyTheComplexFiles ==
    LET v == scanned.value
    IN  /\ {v[i] : i \in 1..Len(v)} = ComplexPairs(scanned.threshold)
        /\ Len(v) = Cardinality(ComplexPairs(scanned.threshold))
        /\ \A i \in 1..Len(v) : v[i][2] > scanned.threshold

\* C11: find_complex_files returns (relative path, code lines) pairs sorted
\* strictly descending by count: exactly the code files whose count is above
\* the threshold, and no count at or below it
C11_StrictlyDescending ==
    Scanned("find_complex_files") =>
        /\ \A i \in 1..(Len(scanned.value) - 1) : scanned.value[i][2] > scanned.value[i + 1][2]
        /\ ExactlyTheComplexFiles

\* C11, amended: the counts never increase along the list, files of equal
\* count stand in the order the walk met them; exactly the visited code files
\* whose count is above the threshold are returned
C11_DescendingTiesInWalkOrder ==
    Scanned("find_complex_files") =>
        /\ \A i \in 1..(Len(scanned.value) - 1) :
              \/ scanned.value[i][2] > scanned.value[i + 1][2]
              \/ /\ scanned.value[i][2] = scanned.value[i + 1][2]
                 /\ ListingIndex(scanned.value[i][1]) < ListingIndex(scanned.value[i + 1][1])
        /\ ExactlyTheComplexFiles

\* A tie, a drop that the sort had to bring about, and a code file left out
C11_Witness ==
    /\ Scanned("find_complex_files")
    /\ \E i, j \in 1..(Len(scanned.value) - 1) :
          /\ scanned.value[i][2] = scanned.value[i + 1][2]
          /\ scanned.value[j][2] > scanned.value[j + 1][2]
          /\ ListingIndex(scanned.value[j][1]) > ListingIndex(scanned.value[j + 1][1])
    /\ \E k \in VisitedCode(ExcludedComplexityDirs) : get_lines_of_code(fs[k]) <= scanned.threshold

\* The windows of block_size lines of the visited code files: (file, first line)
Windows(block_size) ==
    UNION {{<<i, k>> : k \in 1..(Len(fs[i].lines) - block_size + 1)} :
              i \in {j \in VisitedCode(ExcludedDirs) : fs[j].readable}}

\* What a window is compared by: its lines trimmed, the blank ones dropped
Fingerprint(w, block_size) ==
    SelectSeq([j \in 1..block_size |-> strip(fs[w[1]].lines[w[2] + j - 1])], LAMBDA l : l # <<>>)

Occurrences(h, block_size) == {w \in Windows(block_size) : Fingerprint(w, block_size) = h}

\* C12: find_duplicate_blocks returns at most 20 groups, sorted descending by
\* count; every returned group has count >= 2 and as many locations as its
\* count, and no group left out occurs more often than a returned one
C12_TopTwentyGroups ==
    Scanned("find_duplicate_blocks") =>
        LET v == scanned.value
            returned == {v[i].hash : i \in 1..Len(v)}
        IN  /\ Len(v) <= 20
            /\ \A i \in 1..(Len(v) - 1) : v[i].count >= v[i + 1].count
            /\ \A i \in 1..Len(v) : v[i].count >= 2 /\ v[i].count = Len(v[i].locations)
            /\ \A w \in Windows(scanned.block_size) :
                  LET n == Cardinality(Occurrences(Fingerprint(w, scanned.block_size), scanned.block_size))
                  IN  (n >= 2 /\ Fingerprint(w, scanned.block_size) \notin returned) =>
                          \A i \in 1..Len(v) : n <= v[i].count

\* Twenty groups returned, the first occurring more often than the last and found
\* after it, and a group left out
C12_Witness ==
    /\ Scanned("find_duplicate_blocks")
    /\ Len(scanned.value) = 20
    /\ scanned.value[1].count > scanned.value[20].count
    /\ scanned.value[1].locations[1][2] > scanned.value[20].locations[1][2]
    /\ \E w \in Windows(scanned.block_size) :
          /\ Cardinality(Occurrences(Fingerprint(w, scanned.block_size), scanned.block_size)) >= 2
          /\ \A i \in 1..20 : scanned.value[i].hash # Fingerprint(w, scanned.block_size)

\* The filenames analyze_dependency_age looks for, in the order it checks them
CheckOrder == <<<<"r", "e", "q", "u", "i", "r", "e", "m", "e", "n", "t", "s", ".", "t", "x", "t">>, <<"s", "e", "t", "u", "p", ".", "p", "y">>, <<"p", "y", "p", "r", "o", "j", "e", "c", "t", ".", "t", "o", "m", "l">>,
                <<"P", "i", "p", "f", "i", "l", "e", ".", "l", "o", "c", "k">>, <<"p", "a", "c", "k", "a", "g", "e", "-", "l", "o", "c", "k", ".", "j", "s", "o", "n">>, <<"y", "a", "r", "n", ".", "l", "o", "c", "k">>>>

\* The positions in CheckOrder of the files present directly under the root
Present == {k \in 1..Len(CheckOrder) : RootFiles({CheckOrder[k]}) # {}}

\* C13: has_lock_file tells whether the last file that exists, in the check
\* order, has "lock" in its name; with only requirements.txt present the result
\* is has_requirements = True and has_lock_file = False
C13_LastFileDecidesLockFlag ==
    TreeAsAnalyzed =>
        /\ Dependency.details.has_lock_file =
              (Present # {} /\ contains(CheckOrder[SetMax(Present \cup {1})], <<"l", "o", "c", "k">>))
        /\ Present = {1} =>
              Dependency.details.has_requirements /\ ~Dependency.details.has_lock_file

\* Only requirements.txt is present
C13_Witness ==
    /\ TreeAsAnalyzed
    /\ Present = {1}
    /\ Dependency.details.has_requirements
    /\ ~Dependency.details.has_lock_file

\* C14: lock_file_age_days is the smallest age in whole days among the checked
\* files present under the root, lock file or not, and None exactly when none
\* of them is present
C14_AgeOfYoungestFile ==
    TreeAsAnalyzed =>
        LET ages == {(Res.analyzed_at - f.mtime) \div TicksPerDay :
                        f \in RootFiles({CheckOrder[k] : k \in 1..Len(CheckOrder)})}
        IN  /\ (Dependency.details.lock_file_age_days = None) = (Present = {})
            /\ Present # {} => Dependency.details.lock_file_age_days = Some(SetMin(ages))

\* An old lock file and a younger manifest that is no lock file: the age is the
\* manifest's, a whole number of days with half a day dropped
C14_Witness ==
    /\ TreeAsAnalyzed
    /\ \E old \in RootFiles(LockNames), new \in RootFiles(RequirementNames) :
          /\ old.mtime < new.mtime
          /\ (Res.analyzed_at - new.mtime) % TicksPerDay # 0
          /\ Dependency.details.lock_file_age_days = Some((Res.analyzed_at - new.mtime) \div TicksPerDay)
          /\ Dependency.details.lock_file_age_days # Some((Res.analyzed_at - old.mtime) \div TicksPerDay)

\* Whether a path holds "test" or "spec", in any case of the letters
NamesATest(path) == contains(lower(path), <<"t", "e", "s", "t">>) \/ contains(lower(path), <<"s", "p", "e", "c">>)

\* The relative paths of the code files find_untested_code visits
VisitedPaths == {relpath(fs[i]) : i \in VisitedCode(ExcludedDirs)}

Listed(v) == {v[i] : i \in 1..Len(v)}

\* The match of line 170: the test path holds the source path without ".py",
\* or without ".js"
Matches(test_file, source_file) ==
    \/ contains(test_file, replace(source_file, <<".", "p", "y">>))
    \/ contains(test_file, replace(source_file, <<".", "j", "s">>))

\* C15: a code file is a test file, and so never in the untested result, if and
\* only if its path in the repository holds "test" or "spec" in any case; every
\* other code file is a source file, reported unless a test file matches it
C15_TestFileByItsPath ==
    Scanned("find_untested_code") =>
        \A path \in VisitedPaths :
            IF NamesATest(path) THEN path \notin Listed(scanned.value)
            ELSE (path \in Listed(scanned.value)) =
                     ~\E test_file \in {p \in VisitedPaths : NamesATest(p)} : Matches(test_file, path)

\* The source path with its extension removed, for .py and .js files only and
\* only at the end
Stem(path) ==
    IF endswith(path, <<".", "p", "y">>) \/ endswith(path, <<".", "j", "s">>) THEN SubSeq(path, 1, Len(path) - 3)
    ELSE path

\* The paths find_untested_code takes for test files
TestPaths == {relpath(fs[i]) : i \in {j \in VisitedCode(ExcludedDirs) : NamesATest(filepath(Repo, fs[j]))}}

\* C16: find_untested_code returns, in lexicographic order, exactly the source
\* files for which no test file's relative path holds the source file's relative
\* path with its extension removed (only .py and .js, only at the end)
C16_UntestedByStem ==
    Scanned("find_untested_code") =>
        LET v == scanned.value
        IN  /\ \A i \in 1..(Len(v) - 1) : KeyLess(StrKey(v[i]), StrKey(v[i + 1]))
            /\ Listed(v) = {path \in VisitedPaths \ TestPaths :
                               ~\E test_file \in TestPaths : contains(test_file, Stem(path))}

\* The day a listed file was last modified, counted from time 0
DayOf(path) == fs[ListingIndex(path)].mtime \div TicksPerDay

IsDateText(d) ==
    /\ Len(d) = 10
    /\ d[5] = "-" /\ d[8] = "-"
    /\ \A i \in {1, 2, 3, 4, 6, 7, 9, 10} : d[i] \in {Digits[k] : k \in 1..10}

\* C17: find_stale_files(root, months) returns exactly the visited code files
\* modified strictly before now minus months * 30 days, each with its
\* YYYY-MM-DD modification date, oldest first: no entry is followed by one
\* with an earlier date
C17_StaleOldestFirst ==
    Scanned("find_stale_files") =>
        LET v == scanned.value
            old == {i \in VisitedCode(ExcludedDirs) :
                       fs[i].mtime < now - scanned.months * 30 * TicksPerDay}
        IN  /\ {v[k][1] : k \in 1..Len(v)} = {relpath(fs[i]) : i \in old}
            /\ Len(v) = Cardinality(old)
            /\ \A k \in 1..Len(v) : IsDateText(v[k][2]) /\ v[k][2] = strftime(fs[ListingIndex(v[k][1])].mtime)
            /\ \A k \in 1..(Len(v) - 1) : DayOf(v[k][1]) <= DayOf(v[k + 1][1])

\* A file modified exactly at the cutoff is left out, one a tick before it is
\* returned, and the dates returned run from one year into the next
C17_Witness ==
    /\ Scanned("find_stale_files")
    /\ \E i, j \in VisitedCode(ExcludedDirs) :
          /\ fs[i].mtime = now - scanned.months * 30 * TicksPerDay
          /\ fs[j].mtime = fs[i].mtime - 1
          /\ \A k \in 1..Len(scanned.value) : scanned.value[k][1] # relpath(fs[i])
          /\ \E k \in 1..Len(scanned.value) : scanned.value[k][1] = relpath(fs[j])
    /\ \E k \in 1..(Len(scanned.value) - 1) :
          /\ ListingIndex(scanned.value[k][1]) > ListingIndex(scanned.value[k + 1][1])
          /\ DayOf(scanned.value[k][1]) < DayOf(scanned.value[k + 1][1])
    /\ Len(scanned.value) > 0
    /\ SubSeq(scanned.value[1][2], 1, 4) # SubSeq(scanned.value[Len(scanned.value)][2], 1, 4)

\* Whether a line, blank or not, holds three double or three single quotes
HasDelimiter(line) == contains(line, <<"\"", "\"", "\"">>) \/ contains(line, <<"'", "'", "'">>)

\* The flag as line k of the file is reached: flipped once by each line with a
\* delimiter before it
FlagAt(lines, k) == Cardinality({j \in 1..(k - 1) : HasDelimiter(lines[j])}) % 2 = 1

\* The lines of a file that count as code
CountedLines(lines) ==
    {k \in 1..Len(lines) : /\ ~HasDelimiter(lines[k])
                           /\ ~FlagAt(lines, k)
                           /\ strip(lines[k]) # <<>>
                           /\ ~startswith(strip(lines[k]), <<"#">>)
                           /\ ~startswith(strip(lines[k]), <<"/", "/">>)}

\* C18: get_lines_of_code is one pass with one flag, false at first: a line with
\* a triple-quote delimiter flips the flag once and is not counted, even when it
\* opens and closes; no line is counted while the flag is true; with the flag
\* false a line is counted iff stripped it is non-empty and starts with neither
\* '#' nor '//'; an unreadable file yields 0
C18_LinesOfCode ==
    Scanned("get_lines_of_code") =>
        scanned.value = IF fs[scanned.file].readable
                        THEN Cardinality(CountedLines(fs[scanned.file].lines)) ELSE 0

\* A line that opens and closes a literal, the code line after it not counted,
\* the code line before it counted
C18_Witness ==
    /\ Scanned("get_lines_of_code")
    /\ fs[scanned.file].lines = <<<<"x", " ", "=", " ", "1">>, <<"\"", "\"", "\"", "d", "\"", "\"", "\"">>, <<"x", " ", "=", " ", "1">>>>
    /\ scanned.value = 1

\* The fingerprints that two or more windows of the corpus have
Duplicated(block_size) ==
    {Fingerprint(w, block_size) : w \in {x \in Windows(block_size) :
        Cardinality(Occurrences(Fingerprint(x, block_size), block_size)) >= 2}}

\* C19: find_duplicate_blocks indexes every window of block_size consecutive
\* lines of every code file (first lines 1..L-block_size+1, none when
\* L < block_size) under the fingerprint of its trimmed non-blank lines; the
\* count of a group is the number of windows of the corpus with its fingerprint,
\* within one file as across files; so three lines written five times, block
\* size 5, yield a group with count >= 2
C19_EveryWindowIndexed ==
    Scanned("find_duplicate_blocks") =>
        LET v == scanned.value
            bs == scanned.block_size
        IN  /\ \A i \in 1..Len(v) :
                  /\ v[i].count = Cardinality(Occurrences(v[i].hash, bs))
                  /\ Listed(v[i].locations) = {<<relpath(fs[w[1]]), w[2]>> : w \in Occurrences(v[i].hash, bs)}
            /\ Cardinality(Duplicated(bs)) <= 20 => {v[i].hash : i \in 1..Len(v)} = Duplicated(bs)
            /\ (bs = 5 /\ \E i \in VisitedCode(ExcludedDirs) : fs[i].readable /\ fs[i].lines = RepeatedLines) =>
                  \E i \in 1..Len(v) : v[i].count >= 2

\* Three lines written five times: a group of four windows, all in that file; and
\* a group whose windows lie in two files whose raw lines differ
C19_Witness ==
    /\ Scanned("find_duplicate_blocks")
    /\ scanned.block_size = 5
    /\ \E i \in 1..Len(scanned.value) :
          /\ scanned.value[i].count = 4
          /\ \A k \in 1..4 : scanned.value[i].locations[k][1] = <<"d", "u", "p", "l", "i", "c", "a", "t", "i", "o", "n", ".", "p", "y">>
    /\ \E i \in 1..Len(scanned.value) :
          /\ scanned.value[i].count = 2
          /\ scanned.value[i].locations[1][1] # scanned.value[i].locations[2][1]
          /\ fs[ListingIndex(scanned.value[i].locations[1][1])].lines
                 # fs[ListingIndex(scanned.value[i].locations[2][1])].lines

TreeScanners == {"find_complex_files", "find_duplicate_blocks", "find_stale_files",
                 "find_untested_code", "find_undocumented_code"}

\* The relative paths a scanner's return value names
ReportedPaths ==
    LET v == scanned.value
    IN  IF Scanned("find_untested_code") THEN Listed(v)
        ELSE IF Scanned("find_duplicate_blocks")
             THEN UNION {{v[i].locations[k][1] : k \in 1..Len(v[i].locations)} : i \in 1..Len(v)}
        ELSE {v[i][1] : i \in 1..Len(v)}

\* Whether a listed file lies under a directory of one of the names, at any depth
Under(path, names) == \E k \in 1..Len(fs[ListingIndex(path)].dir) : fs[ListingIndex(path)].dir[k] \in names

\* C20: the five tree scanners apply one exclusion set, .git, node_modules,
\* dist, build, venv, .venv and __pycache__: none of them reports a file under
\* a directory of one of these names, at any depth
C20_OneExclusionSet ==
    scanned.op \in TreeScanners =>
        \A path \in ReportedPaths :
            ~Under(path, {<<".", "g", "i", "t">>, <<"n", "o", "d", "e", "_", "m", "o", "d", "u", "l", "e", "s">>, <<"d", "i", "s", "t">>, <<"b", "u", "i", "l", "d">>, <<"v", "e", "n", "v">>, <<".", "v", "e", "n", "v">>, <<"_", "_", "p", "y", "c", "a", "c", "h", "e", "_", "_">>})

Duplication == Cat(Res, "Duplication Debt")

\* C21: whatever the repository, Duplication Debt is at most 60 hours, its
\* details count at most 20 duplicate blocks, and its severity is never CRITICAL
C21_DuplicationCapped ==
    TreeAsAnalyzed =>
        /\ Duplication.estimated_hours <= 2 * 60
        /\ Duplication.details.duplicate_blocks <= 20
        /\ Duplication.severity # CRITICAL

\* A repository with more than 30 duplicate groups, the CRITICAL tier of the
\* table: 60 hours, 20 blocks, HIGH
C21_Witness ==
    /\ TreeAsAnalyzed
    /\ Cardinality(DuplicateFingerprints(Repo)) > 30
    /\ Duplication.estimated_hours = 2 * 60
    /\ Duplication.details.duplicate_blocks = 20
    /\ Duplication.severity = HIGH

\* C22: whichever of the six checked files are present, has_lock_file as
\* analyze_dependency_age computes it, the last file found deciding, is true
\* exactly when one of Pipfile.lock, package-lock.json, yarn.lock is present
C22_LockFlagIsAnyLockFile ==
    TreeAsAnalyzed => Dependency.details.has_lock_file = (RootFiles(LockNames) # {})

\* A lock file together with a manifest that is no lock file
C22_Witness ==
    /\ TreeAsAnalyzed
    /\ RootFiles(LockNames) # {}
    /\ RootFiles(RequirementNames) # {}
    /\ Dependency.details.has_lock_file

\* The tree as it stands, checked out under another root path
RepoAt(root) == [path |-> root, kind |-> rootKind, files |-> fs]

\* C23: the result of find_untested_code depends only on the relative paths of
\* the files under the root: the same tree under another root path, one that
\* holds "test" or "spec" or one that does not, yields the same untested list
C23_RootPathIrrelevant ==
    Scanned("find_untested_code") =>
        \A root \in ScanRoots : scanned.value = find_untested_code(RepoAt(root))

====
